---- MODULE Spec2Model ----
(***************************************************************************)
(* A model of data_processing/data_recording.py: a linear script that      *)
(* acquires a USRP handle, receives num_samples complex samples on channel *)
(* 0, saves the buffer with np.save and prints samples[0:10].              *)
(*                                                                         *)
(* A channel row of the buffer is kept run-length encoded: a sequence of   *)
(* runs [val, cnt], canonical when no run is empty and adjacent runs hold  *)
(* different values.  The encoding is exact, so that a row of 20,000,000   *)
(* samples has its real length.  A complex sample is a pair <<re, im>>.    *)
(***************************************************************************)
EXTENDS Integers, Sequences, FiniteSets, TLC

VARIABLES pc, num_samples, center_freq, sample_rate, gain, usrp, samples,
          file, stdout, calls, recvArgs, failedAt, file0

vars == <<pc, num_samples, center_freq, sample_rate, gain, usrp, samples,
          file, stdout, calls, recvArgs, failedAt, file0>>

params == <<num_samples, center_freq, sample_rate, gain>>

----------------------------------------------------------------------------
(* The literals of the script.  Frequencies and rates are in MHz (2460e6   *)
(* Hz is 2460 MHz, 4e6 Hz is 4 MHz); the sample count is in samples and    *)
(* the gain in dB.                                                         *)

NumSamplesLiteral == 20000000

CenterFreqLiteral == 2460

SampleRateLiteral == 4

GainLiteral == 50

RecvGainLiteral == 50

RecvChannels == <<0>>

SliceStart == 0

SliceStop == 10

FileName == "DATA_4mhz.npy"

(* The arguments of the commented-out invocation. *)
AltNumSamps == 8000000

----------------------------------------------------------------------------
(* Bounds of the model: the inputs the device and the file system supply.  *)

\* the number of leading samples of a row the device chooses freely
HeadLen == 3

\* the number of samples in a capture left on disk by an earlier run
OldLen == 4

SampleVals == {<<0, 0>>, <<1, -1>>}

----------------------------------------------------------------------------
(* Run-length encoded rows. *)

Run(v, n) == [val |-> v, cnt |-> n]

RECURSIVE RowLen(_)
RowLen(r) == IF r = <<>> THEN 0 ELSE Head(r).cnt + RowLen(Tail(r))

RECURSIVE Canon(_)
Canon(r) ==
    IF r = <<>> THEN <<>>
    ELSE LET h == Head(r)
             t == Canon(Tail(r))
         IN  IF h.cnt = 0 THEN t
             ELSE IF t # <<>> /\ Head(t).val = h.val
                  THEN <<Run(h.val, h.cnt + Head(t).cnt)>> \o Tail(t)
                  ELSE <<h>> \o t

RECURSIVE Take(_, _)
Take(r, n) ==
    IF n <= 0 \/ r = <<>> THEN <<>>
    ELSE IF Head(r).cnt >= n THEN <<Run(Head(r).val, n)>>
         ELSE <<Head(r)>> \o Take(Tail(r), n - Head(r).cnt)

RECURSIVE Drop(_, _)
Drop(r, n) ==
    IF r = <<>> THEN <<>>
    ELSE IF n <= 0 THEN r
         ELSE IF Head(r).cnt > n
              THEN <<Run(Head(r).val, Head(r).cnt - n)>> \o Tail(r)
              ELSE Drop(Tail(r), n - Head(r).cnt)

Min(a, b) == IF a <= b THEN a ELSE b

Max(a, b) == IF a >= b THEN a ELSE b

----------------------------------------------------------------------------
(* numpy arrays: a two-dimensional array is its dtype and its rows. *)

Unbound == [dtype |-> "unbound", rows |-> <<>>]

Shape(a) == <<Len(a.rows), IF a.rows = <<>> THEN 0 ELSE RowLen(a.rows[1])>>

Size(a) == Shape(a)[1] * Shape(a)[2]

\* a[start:stop] slices the first axis of the array
PySlice(a, start, stop) ==
    LET n  == Len(a.rows)
        lo == Min(Max(start, 0), n)
        hi == Min(Max(stop, 0), n)
    IN  [dtype |-> a.dtype, rows |-> SubSeq(a.rows, lo + 1, hi)]

\* the elements of the array in C order
RECURSIVE Flatten(_)
Flatten(rows) ==
    IF rows = <<>> THEN <<>>
    ELSE Canon(Head(rows) \o Flatten(Tail(rows)))

Reshape(data, shape) ==
    [i \in 1..shape[1] |-> Take(Drop(data, (i - 1) * shape[2]), shape[2])]

Descr(dtype) ==
    CASE dtype = "complex64" -> "<c8"
      [] dtype = "float32"   -> "<f4"
      [] OTHER               -> "|O"

DtypeOf(descr) ==
    CASE descr = "<c8" -> "complex64"
      [] descr = "<f4" -> "float32"
      [] OTHER         -> "object"

\* the bytes np.save writes: the .npy header, then the elements in C order
NpSave_RealOnly(a) ==
    [magic   |-> "NUMPY",
     header  |-> [descr |-> Descr("float32"), fortran_order |-> FALSE,
                  shape |-> Shape(a)],
     payload |-> Canon([i \in 1..Len(Flatten(a.rows)) |->
                    Run(<<Flatten(a.rows)[i].val[1], 0>>,
                        Flatten(a.rows)[i].cnt)])]

NpSave(a) ==
    [magic   |-> "NUMPY",
     header  |-> [descr |-> Descr(a.dtype), fortran_order |-> FALSE,
                  shape |-> Shape(a)],
     payload |-> Flatten(a.rows)]

NpLoad(f) ==
    [dtype |-> DtypeOf(f.header.descr),
     rows  |-> Reshape(f.payload, f.header.shape)]

\* a file opened for writing and never written
Truncated ==
    [magic   |-> "",
     header  |-> [descr |-> "", fortran_order |-> FALSE, shape |-> <<0, 0>>],
     payload |-> <<>>]

\* a capture left by an earlier run
OldFile ==
    NpSave([dtype |-> "complex64", rows |-> <<<<Run(<<1, -1>>, OldLen)>>>>])

----------------------------------------------------------------------------
(* The receive call. *)

RecvCallArgs_Alt ==
    [num_samps |-> AltNumSamps, freq |-> CenterFreqLiteral,
     rate |-> SampleRateLiteral, channels |-> <<0>>, gain |-> 50]

\* the arguments of usrp.recv_num_samps(...)
RecvCallArgs ==
    [num_samps |-> num_samples, freq |-> center_freq, rate |-> sample_rate,
     channels |-> RecvChannels, gain |-> RecvGainLiteral]

\* the rows of n samples the device can deliver: HeadLen samples chosen
\* freely, then one value to the end of the row
Rows(n) ==
    { Canon([i \in 1..(HeadLen + 1) |->
                IF i <= HeadLen
                THEN Run(h[i], IF i <= n THEN 1 ELSE 0)
                ELSE Run(v, Max(n - HeadLen, 0))]) :
        h \in [1..HeadLen -> SampleVals], v \in SampleVals }

\* the buffers the call can return: one row of num_samps samples per channel
RecvBuffers(args) ==
    { [dtype |-> "complex64", rows |-> rs] :
        rs \in [1..Len(args.channels) -> Rows(args.num_samps)] }

----------------------------------------------------------------------------
(* The state after the declarations of lines 5 to 8: the names are bound,  *)
(* nothing has been called, and DATA_4mhz.npy is absent or left by an      *)
(* earlier run.                                                            *)

NoHandle == "unbound"

Handle == "MultiUSRP"

Init ==
    /\ pc = "acquire"
    /\ num_samples = NumSamplesLiteral
    /\ center_freq = CenterFreqLiteral
    /\ sample_rate = SampleRateLiteral
    /\ gain = GainLiteral
    /\ usrp = NoHandle
    /\ samples = Unbound
    /\ file \in {<<>>, <<OldFile>>}
    /\ stdout = <<>>
    /\ calls = <<>>
    /\ recvArgs = <<>>
    /\ failedAt = "none"
    /\ file0 = file

\* an exception nothing catches ends the process at the call that raised it
Raise(fn) ==
    /\ pc' = "failed"
    /\ failedAt' = fn

----------------------------------------------------------------------------
(* Line 9: usrp = uhd.usrp.MultiUSRP() *)

AcquireReturn ==
    /\ pc = "acquire"
    /\ calls' = Append(calls, "MultiUSRP")
    /\ usrp' = Handle
    /\ pc' = "recv"
    /\ UNCHANGED <<params, samples, file, stdout, recvArgs, failedAt, file0>>

AcquireRaise ==
    /\ pc = "acquire"
    /\ calls' = Append(calls, "MultiUSRP")
    /\ Raise("MultiUSRP")
    /\ UNCHANGED <<params, usrp, samples, file, stdout, recvArgs, file0>>

(* Line 10: samples = usrp.recv_num_samps(...) *)

RecvReturn_Partial ==
    /\ pc = "recv"
    /\ calls' = Append(calls, "recv_num_samps")
    /\ recvArgs' = Append(recvArgs, RecvCallArgs)
    /\ \E buf \in RecvBuffers(RecvCallArgs) :
         samples' = [buf EXCEPT !.rows =
                        [i \in 1..Len(buf.rows) |-> Take(buf.rows[i], HeadLen)]]
    /\ pc' = "save"
    /\ UNCHANGED <<params, usrp, file, stdout, failedAt, file0>>

RecvReturn ==
    /\ pc = "recv"
    /\ calls' = Append(calls, "recv_num_samps")
    /\ recvArgs' = Append(recvArgs, RecvCallArgs)
    /\ \E buf \in RecvBuffers(RecvCallArgs) : samples' = buf
    /\ pc' = "save"
    /\ UNCHANGED <<params, usrp, file, stdout, failedAt, file0>>

RecvRaise_Swallowed ==
    /\ pc = "recv"
    /\ calls' = Append(calls, "recv_num_samps")
    /\ recvArgs' = Append(recvArgs, RecvCallArgs)
    /\ failedAt' = "recv_num_samps"
    /\ pc' = "save"
    /\ UNCHANGED <<params, usrp, samples, file, stdout, file0>>

RecvRaise_SavesAnyway ==
    /\ pc = "recv"
    /\ calls' = Append(calls, "recv_num_samps")
    /\ recvArgs' = Append(recvArgs, RecvCallArgs)
    /\ Raise("recv_num_samps")
    /\ file' = <<NpSave(samples)>>
    /\ UNCHANGED <<params, usrp, samples, stdout, file0>>

RecvRaise_Restart ==
    /\ pc = "recv"
    /\ calls' = <<>>
    /\ recvArgs' = <<>>
    /\ usrp' = NoHandle
    /\ pc' = "acquire"
    /\ UNCHANGED <<params, samples, file, stdout, failedAt, file0>>

RecvRaise ==
    /\ pc = "recv"
    /\ calls' = Append(calls, "recv_num_samps")
    /\ recvArgs' = Append(recvArgs, RecvCallArgs)
    /\ Raise("recv_num_samps")
    /\ UNCHANGED <<params, usrp, samples, file, stdout, file0>>

(* Line 11: np.save("DATA_4mhz.npy", samples) *)

SaveReturn_InPlace ==
    /\ pc = "save"
    /\ calls' = Append(calls, "save")
    /\ file' = <<NpSave(samples)>>
    /\ samples' = [samples EXCEPT !.rows =
                      [i \in 1..Len(samples.rows) |->
                          Canon(<<Run(<<0, 0>>, 1)>> \o Drop(samples.rows[i], 1))]]
    /\ pc' = "print"
    /\ UNCHANGED <<params, usrp, stdout, recvArgs, failedAt, file0>>

SaveReturn ==
    /\ pc = "save"
    /\ calls' = Append(calls, "save")
    /\ file' = <<NpSave(samples)>>
    /\ pc' = "print"
    /\ UNCHANGED <<params, usrp, samples, stdout, recvArgs, failedAt, file0>>

\* the open fails and the file is as it was, or the write fails after the
\* open has truncated it
SaveRaise ==
    /\ pc = "save"
    /\ calls' = Append(calls, "save")
    /\ file' \in {file, <<Truncated>>}
    /\ Raise("save")
    /\ UNCHANGED <<params, usrp, samples, stdout, recvArgs, file0>>

(* Line 18: print(samples[0:10]) *)

PrintReturn_Twice ==
    /\ pc = "print"
    /\ calls' = calls \o <<"print", "print">>
    /\ stdout' = stdout \o <<PySlice(samples, SliceStart, SliceStop),
                             PySlice(samples, SliceStart, SliceStop)>>
    /\ pc' = "done"
    /\ UNCHANGED <<params, usrp, samples, file, recvArgs, failedAt, file0>>

PrintReturn_Release ==
    /\ pc = "print"
    /\ calls' = Append(calls, "print")
    /\ stdout' = Append(stdout, PySlice(samples, SliceStart, SliceStop))
    /\ usrp' = NoHandle
    /\ pc' = "done"
    /\ UNCHANGED <<params, samples, file, recvArgs, failedAt, file0>>

PrintReturn ==
    /\ pc = "print"
    /\ calls' = Append(calls, "print")
    /\ stdout' = Append(stdout, PySlice(samples, SliceStart, SliceStop))
    /\ pc' = "done"
    /\ UNCHANGED <<params, usrp, samples, file, recvArgs, failedAt, file0>>

PrintRaise ==
    /\ pc = "print"
    /\ calls' = Append(calls, "print")
    /\ Raise("print")
    /\ UNCHANGED <<params, usrp, samples, file, stdout, recvArgs, file0>>

Next ==
    \/ AcquireReturn
    \/ AcquireRaise
    \/ RecvReturn
    \/ RecvRaise
    \/ SaveReturn
    \/ SaveRaise
    \/ PrintReturn
    \/ PrintRaise

Spec == Init /\ [][Next]_vars

\* every library call returns or raises, so an enabled step is taken
FairSpec == Spec /\ WF_vars(Next)

----------------------------------------------------------------------------
(* The properties. *)

\* the calls the script makes, in the order of its lines
Script == <<"MultiUSRP", "recv_num_samps", "save", "print">>

IsPrefix(s, t) == Len(s) <= Len(t) /\ s = SubSeq(t, 1, Len(s))

Count(s, x) == Cardinality({i \in 1..Len(s) : s[i] = x})

Terminated == pc \in {"done", "failed"}

\* one row per requested channel, each of the declared number of samples
Complete(a) ==
    /\ Len(a.rows) = Len(RecvChannels)
    /\ \A i \in 1..Len(a.rows) : RowLen(a.rows[i]) = NumSamplesLiteral

\* C1: the receive call is made at most once, and once the script is past
\* it exactly once, with num_samps, freq, rate and gain equal to the values
\* declared on lines 5 to 8 and with the channel list (0,).
C1_ReceiveArgsAsDeclared ==
    /\ Len(recvArgs) <= 1
    /\ pc \in {"save", "print", "done"} => Len(recvArgs) = 1
    /\ \A i \in 1..Len(recvArgs) :
         recvArgs[i] = [num_samps |-> NumSamplesLiteral,
                        freq      |-> CenterFreqLiteral,
                        rate      |-> SampleRateLiteral,
                        channels  |-> <<0>>,
                        gain      |-> GainLiteral]

C1_Witness == pc = "save" /\ Len(recvArgs) = 1

\* C2: when the script has printed, what it printed is one array of exactly
\* ten samples, the first ten of the buffer that reloads from the file.
C2_PreviewIsFirstTenSamples ==
    pc = "done" =>
        /\ Len(stdout) = 1
        /\ Size(stdout[1]) = SliceStop - SliceStart
        /\ Flatten(stdout[1].rows)
             = Take(Flatten(NpLoad(file[1]).rows), SliceStop - SliceStart)

\* C3: once np.save has returned, loading the file gives an array equal to
\* the buffer the receive call returned, of complex dtype, with one row of
\* num_samples samples.
C3_RoundTrip ==
    pc \in {"print", "done"} =>
        /\ Len(file) = 1
        /\ NpLoad(file[1]) = samples
        /\ NpLoad(file[1]).dtype = "complex64"
        /\ Shape(NpLoad(file[1])) = <<1, num_samples>>
        /\ RowLen(file[1].payload) = num_samples

C3_Witness == pc = "done" /\ Len(file) = 1 /\ Len(file[1].payload) > 1

\* C4: the calls made so far are always a prefix of acquire, receive, save,
\* print, so that they happen in that order and each at most once, and a
\* successful run has made each of them exactly once.
C4_StepsInOrder ==
    /\ IsPrefix(calls, Script)
    /\ pc = "done" => calls = Script

C4_Witness == pc = "done" /\ calls = Script

\* C5: when a call has raised, the process has ended there: the raising
\* call was made once and is the last call made, and no step is ever taken
\* from the failed state.
C5_FailureTerminates ==
    /\ [](failedAt # "none" =>
            /\ pc = "failed"
            /\ calls # <<>>
            /\ calls[Len(calls)] = failedAt
            /\ Count(calls, failedAt) = 1
            /\ IsPrefix(calls, Script))
    /\ [](failedAt \in {"MultiUSRP", "recv_num_samps"} =>
            /\ ~("save" \in {calls[i] : i \in 1..Len(calls)})
            /\ ~("print" \in {calls[i] : i \in 1..Len(calls)}))
    /\ [][pc # "failed"]_vars

C5_Witness ==
    pc = "failed" /\ failedAt = "recv_num_samps" /\ Len(calls) = 2

\* C6: whenever the script is past the receive call the buffer holds one
\* row of num_samples samples per channel, so do the file np.save wrote and
\* the array print was given; a receive call that raised left no buffer.
C6_AllOrNothing ==
    /\ pc \in {"save", "print", "done"} => Complete(samples)
    /\ "save" \in {calls[i] : i \in 1..Len(calls)} => Complete(samples)
    /\ (file # file0 /\ file # <<Truncated>>) =>
            file[1].header.shape = <<Len(RecvChannels), num_samples>>
    /\ \A i \in 1..Len(stdout) :
         \A j \in 1..Len(stdout[i].rows) :
             RowLen(stdout[i].rows[j]) = num_samples
    /\ failedAt = "recv_num_samps" => samples = Unbound

C6_Witness == pc = "print" /\ Complete(samples) /\ file # file0

\* C7: the device is acquired at most once, and in every state after the
\* acquisition returned the handle is held, until the end of the run.
C7_HandleHeld ==
    /\ Count(calls, "MultiUSRP") <= 1
    /\ ("MultiUSRP" \in {calls[i] : i \in 1..Len(calls)}
            /\ failedAt # "MultiUSRP") => usrp = Handle
    /\ pc \in {"recv", "save", "print", "done"} =>
            usrp = Handle /\ Count(calls, "MultiUSRP") = 1

C7_Witness == pc = "done" /\ usrp = Handle

\* C8: after a receive call that raised, the file is what it was before the
\* run and nothing was printed; the file differs from what it was only
\* after np.save was called with a complete buffer.
C8_FailedReceiveWritesNothing ==
    /\ failedAt = "recv_num_samps" => file = file0 /\ stdout = <<>>
    /\ file # file0 =>
            /\ "save" \in {calls[i] : i \in 1..Len(calls)}
            /\ Complete(samples)

C8_Witness ==
    failedAt = "recv_num_samps" /\ file0 = <<OldFile>> /\ file = <<OldFile>>

\* C9: num_samples, center_freq, sample_rate and gain hold their declared
\* values in every state, no step after the receive call changes the
\* buffer, and what was printed is the slice of what was saved.
C9_BufferAndParamsUnchanged ==
    /\ [](params = <<NumSamplesLiteral, CenterFreqLiteral,
                     SampleRateLiteral, GainLiteral>>)
    /\ [][(pc \in {"save", "print"}) => (samples' = samples)]_vars
    /\ [](pc = "done" =>
            /\ Len(file) = 1
            /\ stdout = <<PySlice(NpLoad(file[1]), SliceStart, SliceStop)>>)

C9_Witness == pc = "done" /\ Len(stdout) = 1 /\ stdout[1] = samples

\* C10: when every call returns or raises, the run ends and stays ended:
\* after the print with the file written exactly once, or at the call that
\* raised.
C10_Terminates ==
    /\ <>[]Terminated
    /\ [](pc = "done" =>
            /\ calls[Len(calls)] = "print"
            /\ Count(calls, "save") = 1
            /\ failedAt = "none")
    /\ [](pc = "failed" => calls[Len(calls)] = failedAt)

C10_Witness ==
    Terminated /\ ~ENABLED Next /\ pc = "done" /\ Count(calls, "save") = 1

====
